---- MODULE Spec2Model ----
(***************************************************************************)
(* Model of streamlit_app_video.py: the per-session state of the video     *)
(* spoofer (uploaded files, rotation map, option widgets) and the export   *)
(* block that transcodes every (file, mirror state, effect variant) with   *)
(* ffmpeg and packs the results into one ZIP.                              *)
(*                                                                         *)
(* Strings are TLA+ strings: names, suffixes, filter chains, archive paths *)
(* and error messages are built by concatenation exactly as the f-strings  *)
(* and os.path calls of the script build them.                             *)
(***************************************************************************)
EXTENDS Integers, Sequences, FiniteSets, TLC

VARIABLES
    files,                \* names of the uploaded files, in upload order
    last_uploaded_names,  \* st.session_state.last_uploaded_names
    rotation_map,         \* st.session_state.rotation_map
    selected_name,        \* st.session_state.selected_name
    mirror_preview,       \* st.session_state.mirror_preview
    mirror_all, flat_export, resize_export, export_scale_pct,
    eff_normal, eff_bw, eff_bwc, eff_gh,
    variants,             \* generate_variants(...) of the last script run
    total_exports,        \* the sidebar's export counter
    pc,                   \* "idle" | "running" | "done": the export block
    stage,                \* "file" | "variant" | "finish": position in it
    tmp_root,             \* the local tmp_root ("unbound" before mkdtemp)
    tmp_fs,               \* the files below tmp_root: path -> content
    tmp_exists,           \* does the directory tmp_root exist on disk
    zf,                   \* the entries written to the ZipFile, in order
    total_ops, done,      \* the progress counter
    fi, mi, vi,           \* loop positions: file, mirror state, variant
    in_path,                      \* the temp file holding the input of file fi
    angle, mstate, pipeline,      \* locals of the loops of the export block
    suf, vf, out_name, arcname,   \* locals of the innermost loop body
    calls,                \* the ffmpeg invocations of the run
    error,                \* the text given to st.error ("" when none)
    download,             \* has st.download_button been shown
    progress, status      \* the progress bar and the status line

session_vars == <<files, last_uploaded_names, rotation_map, selected_name,
                  mirror_preview>>
option_vars == <<mirror_all, flat_export, resize_export, export_scale_pct,
                 eff_normal, eff_bw, eff_bwc, eff_gh>>
sidebar_vars == <<variants, total_exports>>
run_vars == <<pc, stage, tmp_root, tmp_fs, tmp_exists, zf, total_ops, done,
              fi, mi, vi, in_path, angle, mstate, pipeline, suf, vf, out_name,
              arcname, calls, error, download, progress, status>>
vars == <<session_vars, option_vars, sidebar_vars, run_vars>>

---------------------------------------------------------------------------
\* Bounds of the model.

MaxFiles == 2

\* Names the uploader can deliver.  Two share the base "clip".
FileNames == {"clip.mp4", "clip.MOV", "b.avi"}

\* Positions of the "Taille export (%)" slider that are explored.
ScaleChoices == {50, 100, 150}

\* Rotation angles given to the files of a multi-file export.
ExportAngles == {0, 90}

\* Effect checkbox settings <<normal, bw, bwcontrast, goldenhour>> of a
\* multi-file export.
ExportEffects == { <<FALSE, FALSE, FALSE, FALSE>>, <<TRUE, FALSE, FALSE, FALSE>>,
                   <<FALSE, TRUE, FALSE, TRUE>> }

\* The file of a single-file export.
SingleNames == {"clip.mp4"}

\* Settings <<resize_export, export_scale_pct>> of a multi-file export.
ExportScales == {<<FALSE, 100>>, <<TRUE, 50>>}

\* What ffmpeg can leave on stderr.
StderrTexts == {"Conversion failed!"}

\* str(e) of an OSError raised by the file system or the archive.
OSErrorText == "[Errno 28] No space left on device"

\* The directory tempfile.mkdtemp returns.
TmpDir == "/tmp/spoofer_video_x"

---------------------------------------------------------------------------
\* Python string primitives.

Max(a, b) == IF a >= b THEN a ELSE b

RECURSIVE rfind(_, _, _)
\* str.rfind for a one-character needle, searching s[1..i]; 0 when absent.
rfind(s, ch, i) ==
    IF i = 0 THEN 0
    ELSE IF SubSeq(s, i, i) = ch THEN i
    ELSE rfind(s, ch, i - 1)

RECURSIVE find(_, _, _)
\* smallest k >= i with sub at position k of s; 0 when absent.
find(s, sub, i) ==
    IF i + Len(sub) - 1 > Len(s) THEN 0
    ELSE IF SubSeq(s, i, i + Len(sub) - 1) = sub THEN i
    ELSE find(s, sub, i + 1)

Contains(s, sub) == find(s, sub, 1) # 0
StartsWith(s, p) == Len(p) <= Len(s) /\ SubSeq(s, 1, Len(p)) = p
EndsWith(s, p) == Len(p) <= Len(s) /\ SubSeq(s, Len(s) - Len(p) + 1, Len(s)) = p

UpperAlpha == "ABCDEFGHIJKLMNOPQRSTUVWXYZ"
LowerAlpha == "abcdefghijklmnopqrstuvwxyz"

RECURSIVE lower(_)
\* str.lower on ASCII text.
lower(s) ==
    IF s = "" THEN ""
    ELSE LET c == SubSeq(s, 1, 1)
             k == find(UpperAlpha, c, 1)
         IN (IF k = 0 THEN c ELSE SubSeq(LowerAlpha, k, k))
            \o lower(SubSeq(s, 2, Len(s)))

RECURSIVE join(_, _)
\* sep.join(parts)
join(sep, parts) ==
    IF parts = <<>> THEN ""
    ELSE IF Len(parts) = 1 THEN parts[1]
    ELSE parts[1] \o sep \o join(sep, Tail(parts))

\* os.path.basename (POSIX)
basename(p) == SubSeq(p, rfind(p, "/", Len(p)) + 1, Len(p))

\* os.path.splitext: the extension starts at the last dot, unless that dot
\* only follows dots at the start of the file name.
splitext(p) ==
    LET sepIndex == rfind(p, "/", Len(p))
        dotIndex == rfind(p, ".", Len(p))
    IN IF /\ dotIndex > sepIndex
          /\ \E k \in (sepIndex + 1)..(dotIndex - 1) : SubSeq(p, k, k) # "."
       THEN <<SubSeq(p, 1, dotIndex - 1), SubSeq(p, dotIndex, Len(p))>>
       ELSE <<p, "">>

\* os.path.join of two components, the second one relative.
path_join(a, b) == IF EndsWith(a, "/") THEN a \o b ELSE a \o "/" \o b

\* repr(scale_pct / 100.0) for a whole percentage in 0..999.
float_div100(pct) ==
    LET r == pct % 100
    IN ToString(pct \div 100) \o "." \o
       (IF r % 10 = 0 THEN ToString(r \div 10)
        ELSE IF r < 10 THEN "0" \o ToString(r)
        ELSE ToString(r))

---------------------------------------------------------------------------
\* Constants and helpers of the script.

ROTATIONS_ALLOWED == {0, 90, 180, 270}

ext_lower(name) == lower(splitext(name)[2])

\* choose_output_format: the extension (the codec arguments play no part in
\* naming or control flow).
choose_output_format(src_name) == ".mp4"

\* None stands for Python's None as the scale argument.
None == -1

\* Lines 62-69: transpose for 90/270, rotate for 180.
rotation_filter(rotate_deg) ==
    LET rd == rotate_deg % 360
    IN IF rd = 90 THEN <<"transpose=1">>
       ELSE IF rd = 270 THEN <<"transpose=2">>
       ELSE IF rd = 180 THEN <<"rotate=PI">>
       ELSE <<>>

\* Lines 72-73.
mirror_filter(mirror) == IF mirror THEN <<"hflip">> ELSE <<>>

\* Lines 76-89: the filter of the first step of the pipeline.
effect_filter(pl) ==
    IF Len(pl) > 0
    THEN LET step == pl[1]
         IN IF step = "bw" THEN <<"hue=s=0">>
            ELSE IF step = "bwcontrast"
            THEN <<"hue=s=0,eq=contrast=1.35:brightness=0.0">>
            ELSE IF step = "goldenhour"
            THEN <<"colorbalance=rs=.10:gs=.05:bs=-.05,hue=s=1.12,eq=contrast=1.06:brightness=0.03">>
            ELSE <<>>
    ELSE <<>>

\* scale_filter without the test for 100.
scale_filter_always(scale_pct) ==
    IF scale_pct # None /\ 10 <= scale_pct /\ scale_pct <= 200
    THEN <<"scale=iw*" \o float_div100(scale_pct) \o ":ih*" \o float_div100(scale_pct)>>
    ELSE <<>>

\* Lines 92-95.
scale_filter(scale_pct) ==
    IF scale_pct # None /\ 10 <= scale_pct /\ scale_pct <= 200 /\ scale_pct # 100
    THEN <<"scale=iw*" \o float_div100(scale_pct) \o ":ih*" \o float_div100(scale_pct)>>
    ELSE <<>>

ffmpeg_build_filtergraph(pl, mirror, rotate_deg, scale_pct) ==
    LET filters == rotation_filter(rotate_deg) \o mirror_filter(mirror)
                     \o effect_filter(pl) \o scale_filter(scale_pct)
    IN IF filters # <<>> THEN join(",", filters) ELSE "null"

apply_variant_suffix(pl) ==
    IF pl # <<>> THEN "_" \o join("_", pl) ELSE "_normal"

\* generate_variants without the fallback of line 109.
generate_variants_nodefault(e_normal, e_bw, e_bwc, e_gh) ==
    (IF e_normal THEN << <<"normal">> >> ELSE <<>>)
    \o (IF e_bw THEN << <<"bw">> >> ELSE <<>>)
    \o (IF e_bwc THEN << <<"bwcontrast">> >> ELSE <<>>)
    \o (IF e_gh THEN << <<"goldenhour">> >> ELSE <<>>)

generate_variants(e_normal, e_bw, e_bwc, e_gh) ==
    LET v == (IF e_normal THEN << <<"normal">> >> ELSE <<>>)
             \o (IF e_bw THEN << <<"bw">> >> ELSE <<>>)
             \o (IF e_bwc THEN << <<"bwcontrast">> >> ELSE <<>>)
             \o (IF e_gh THEN << <<"goldenhour">> >> ELSE <<>>)
    IN IF v = <<>> THEN << <<"normal">> >> ELSE v

\* run_ffmpeg_export: the (ok, log) it returns for what the subprocess did:
\* "exit0", "nonzero" (stderr is the log) or "exception" (str(e) is the log).
run_ffmpeg_export(outcome, text) ==
    IF outcome = "exit0" THEN <<TRUE, "">> ELSE <<FALSE, text>>

---------------------------------------------------------------------------
\* The pieces of the export block (lines 276-364).

\* The value of selected_name before any file was selected (Python's None).
NoName == ""

EmptyFs == << >>

\* base = os.path.splitext(os.path.basename(f.name))[0]
base_of(name) == splitext(basename(name))[1]

\* in_path: "input__<base>" below tmp_root, plus the lower-cased extension.
in_path_of(root, name) ==
    path_join(root, "input__" \o base_of(name)) \o ext_lower(name)

\* angle = rotation_map.get(f.name, 0), forced to 0 when it is not allowed.
export_angle(rmap, name) ==
    LET a == IF name \in DOMAIN rmap THEN rmap[name] ELSE 0
    IN IF a \notin ROTATIONS_ALLOWED THEN 0 ELSE a

\* mirror_states that always exports the unmirrored state as well.
mirror_states_with_plain(m_all, m_preview) ==
    IF m_all \/ m_preview THEN <<FALSE, TRUE>> ELSE <<FALSE>>

\* mirror_states = [False, True] if mirror_all else [mirror_preview]
mirror_states(m_all, m_preview) ==
    IF m_all THEN <<FALSE, TRUE>> ELSE <<m_preview>>

\* export_scale_pct if resize_export else None
scale_arg(resize, pct) == IF resize THEN pct ELSE None

\* suf: rotation marker, mirror marker, effect marker, scale marker.
\* Lines 314-315.
scale_marker(resize, pct) ==
    IF resize /\ pct # 100 THEN "_" \o ToString(pct) \o "pct" ELSE ""

\* Lines 311-312.
mirror_marker(flat, ms) == IF flat /\ ms THEN "_mir" ELSE ""

suffix_of(a, flat, ms, pl, resize, pct) ==
    (IF a # 0 THEN "_rot" \o ToString(a) ELSE "")
    \o mirror_marker(flat, ms)
    \o apply_variant_suffix(pl)
    \o scale_marker(resize, pct)

\* out_name = f"{base}{suf}{out_ext}"
out_name_of(base, sfx, out_ext) == base \o sfx \o out_ext

mirror_dir(ms) == IF ms THEN "Miroir" ELSE "Normal"

out_dir_of(root, base, flat, ms) ==
    IF flat THEN path_join(root, "out_flat")
    ELSE path_join(path_join(path_join(root, "out"), base), mirror_dir(ms))

\* arcname: the file name alone when flat, else <base>/<Miroir|Normal>/<name>
arcname_of(base, flat, ms, oname) ==
    IF flat THEN oname
    ELSE path_join(path_join(base, mirror_dir(ms)), oname)

\* total_ops without the factor for the mirror states.
total_ops_no_mirror(nfiles, m_all, vs) == nfiles * Max(1, Len(vs))

\* total_ops = len(files) * (2 if mirror_all else 1) * max(1, len(variants))
total_ops_of(nfiles, m_all, vs) ==
    nfiles * (IF m_all THEN 2 ELSE 1) * Max(1, Len(vs))

\* The RuntimeError text without the names.
ffmpeg_error_bare(name, oname, log) == "ffmpeg a échoué : " \o log

\* RuntimeError(f"ffmpeg a échoué pour {f.name} ({out_name}) : {log}")
ffmpeg_error(name, oname, log) ==
    "ffmpeg a échoué pour " \o name \o " (" \o oname \o ") : " \o log

\* st.error(f"Erreur lors de l'export : {e}")
export_error(e) == "Erreur lors de l'export : " \o e

\* if not ok: raise RuntimeError(...)
raises_on(ok) == ~ok

\* A run that leaves the directory behind.
cleanup_skipped(root, exists) == exists

\* The finally block: shutil.rmtree(tmp_root, ignore_errors=True).  With
\* tmp_root unbound the NameError is swallowed and nothing is removed.
\* Gives whether the directory still exists afterwards.
cleanup_exists(root, exists) == IF root = "unbound" THEN exists ELSE FALSE

\* progress.progress(min(1.0, done / max(1, total_ops))) as <<num, den>>
progress_of(d, total) ==
    IF d >= Max(1, total) THEN <<1, 1>> ELSE <<d, Max(1, total)>>

\* The loop position after the body at (f, m, v) completed: <<stage, f, m, v>>
after_file(f) ==
    IF f < Len(files) THEN <<"file", f + 1, 0, 0>> ELSE <<"finish", f, 0, 0>>

\* next_pos that leaves the loop over the mirror states after its first pass.
next_pos_one_mirror(f, m, v) ==
    IF v < Len(variants) THEN <<"variant", f, m, v + 1>> ELSE after_file(f)

next_pos(f, m, v) ==
    IF v < Len(variants) THEN <<"variant", f, m, v + 1>>
    ELSE IF m < Len(mirror_states(mirror_all, mirror_preview))
    THEN <<"variant", f, m + 1, 1>>
    ELSE after_file(f)

\* The first position of the loops over mirror states and variants of file f.
first_pos(f) ==
    IF Len(mirror_states(mirror_all, mirror_preview)) = 0 \/ Len(variants) = 0
    THEN after_file(f)
    ELSE <<"variant", f, 1, 1>>

---------------------------------------------------------------------------
\* Initial states.

SidebarOK ==
    /\ variants = generate_variants(eff_normal, eff_bw, eff_bwc, eff_gh)
    /\ total_exports = Len(files) * (IF mirror_all THEN 2 ELSE 1)
                         * Max(1, Len(variants))

RunIdle ==
    /\ pc = "idle" /\ stage = "none"
    /\ tmp_root = "unbound" /\ tmp_fs = EmptyFs /\ tmp_exists = FALSE
    /\ zf = <<>> /\ total_ops = 0 /\ done = 0
    /\ fi = 0 /\ mi = 0 /\ vi = 0
    /\ in_path = ""
    /\ angle = 0 /\ mstate = FALSE /\ pipeline = <<>>
    /\ suf = "" /\ vf = "" /\ out_name = "" /\ arcname = ""
    /\ calls = <<>> /\ error = "" /\ download = FALSE
    /\ progress = <<0, 1>> /\ status = ""

NameSet(fs) == {fs[i] : i \in DOMAIN fs}

FileLists(n) == UNION {[1..k -> FileNames] : k \in 0..n}

\* The session right after the first script run: nothing uploaded, every
\* widget at its default.
InitSession ==
    /\ files = <<>> /\ last_uploaded_names = <<>>
    /\ rotation_map = << >> /\ selected_name = NoName
    /\ mirror_preview = FALSE
    /\ mirror_all = FALSE /\ flat_export = FALSE
    /\ resize_export = FALSE /\ export_scale_pct = 100
    /\ eff_normal = TRUE /\ eff_bw = FALSE /\ eff_bwc = FALSE /\ eff_gh = FALSE
    /\ SidebarOK /\ RunIdle

\* A session in which files were uploaded, rotated and the options set,
\* before the export button is pressed.
InitExport ==
    /\ files \in FileLists(MaxFiles) \ {<<>>}
    /\ last_uploaded_names = files
    /\ rotation_map \in [NameSet(files) -> ExportAngles]
    /\ selected_name = files[1]
    /\ mirror_preview \in BOOLEAN /\ mirror_all \in BOOLEAN
    /\ flat_export \in BOOLEAN
    /\ \E rs \in ExportScales :
         resize_export = rs[1] /\ export_scale_pct = rs[2]
    /\ \E e \in ExportEffects :
         eff_normal = e[1] /\ eff_bw = e[2] /\ eff_bwc = e[3] /\ eff_gh = e[4]
    /\ SidebarOK /\ RunIdle

\* One uploaded file with every rotation, option and effect combination.
InitSingle ==
    /\ files \in {<<n>> : n \in SingleNames}
    /\ last_uploaded_names = files
    /\ rotation_map \in [NameSet(files) -> ROTATIONS_ALLOWED]
    /\ selected_name = files[1]
    /\ mirror_preview \in BOOLEAN /\ mirror_all \in BOOLEAN
    /\ flat_export \in BOOLEAN
    /\ resize_export \in BOOLEAN /\ export_scale_pct \in ScaleChoices
    /\ eff_normal \in BOOLEAN /\ eff_bw \in BOOLEAN
    /\ eff_bwc \in BOOLEAN /\ eff_gh \in BOOLEAN
    /\ SidebarOK /\ RunIdle

---------------------------------------------------------------------------
\* The export block, one action per step between two points where the
\* environment (file system, ffmpeg, archive) can answer differently.  A step
\* that raises runs the except clause (st.error) and the finally clause
\* (rmtree) at once: nothing can happen in between.

\* except Exception as e: st.error(...); finally: rmtree
Raise(root, e) ==
    /\ error' = export_error(e)
    /\ tmp_exists' = cleanup_exists(root, tmp_exists)
    /\ tmp_fs' = IF tmp_exists' THEN tmp_fs ELSE EmptyFs
    /\ pc' = "done"

\* "Exporter en ZIP" pressed (lines 271-285): the script runs from the top,
\* then progress bar, status line, mkdtemp, the ZIP buffer and the counters.
ExportBegin ==
    /\ pc = "idle"
    /\ files # <<>>
    /\ variants' = generate_variants(eff_normal, eff_bw, eff_bwc, eff_gh)
    /\ total_exports' = Len(files) * (IF mirror_all THEN 2 ELSE 1)
                          * Max(1, Len(variants'))
    /\ progress' = <<0, 1>>
    /\ status' = ""
    /\ \E mk \in {"ok", "oserror"} :
        IF mk = "ok"
        THEN /\ tmp_root' = TmpDir
             /\ tmp_exists' = TRUE
             /\ tmp_fs' = EmptyFs
             /\ zf' = <<>>
             /\ total_ops' = total_ops_of(Len(files), mirror_all, variants')
             /\ done' = 0
             /\ pc' = "running"
             /\ stage' = "file"
             /\ fi' = 1
             /\ UNCHANGED <<mi, vi, error>>
        ELSE /\ tmp_root' = "unbound"
             /\ Raise("unbound", OSErrorText)
             /\ UNCHANGED <<zf, total_ops, done, stage, fi, mi, vi>>
    /\ UNCHANGED <<session_vars, option_vars, in_path, angle, mstate, pipeline,
                   suf, vf, out_name, arcname, calls, download>>

\* Lines 288-304: the uploaded bytes of file fi go to in_path.
SaveInput ==
    /\ pc = "running" /\ stage = "file"
    /\ LET name == files[fi]
       IN /\ in_path' = in_path_of(tmp_root, name)
          /\ \E wr \in {"ok", "oserror"} :
            IF wr = "ok"
            THEN /\ tmp_fs' = (in_path' :> <<fi, "">>) @@ tmp_fs
                 /\ angle' = export_angle(rotation_map, name)
                 /\ LET np == first_pos(fi)
                    IN stage' = np[1] /\ fi' = np[2] /\ mi' = np[3] /\ vi' = np[4]
                 /\ UNCHANGED <<pc, tmp_exists, error>>
            ELSE /\ Raise(tmp_root, OSErrorText)
                 /\ UNCHANGED <<stage, fi, mi, vi, angle>>
    /\ UNCHANGED <<session_vars, option_vars, sidebar_vars, tmp_root, zf,
                   total_ops, done, mstate, pipeline, suf, vf, out_name,
                   arcname, calls, download, progress, status>>

\* Lines 305-344: one variant of file fi: filter chain, names, makedirs,
\* ffmpeg, the archive entry, the progress counter.
Transcode ==
    /\ pc = "running" /\ stage = "variant"
    /\ LET name == files[fi]
           base == base_of(name)
           out_ext == choose_output_format(name)
           ms == mirror_states(mirror_all, mirror_preview)[mi]
           pl == variants[vi]
           vfc == ffmpeg_build_filtergraph(pl, ms, angle,
                                           scale_arg(resize_export, export_scale_pct))
           sfx == suffix_of(angle, flat_export, ms, pl,
                            resize_export, export_scale_pct)
           oname == out_name_of(base, sfx, out_ext)
           out_path == path_join(out_dir_of(tmp_root, base, flat_export, ms), oname)
           arc == arcname_of(base, flat_export, ms, oname)
           call(ok) == [input_path |-> in_path, output_path |-> out_path,
                        vf_chain |-> vfc, ok |-> ok]
       IN /\ mstate' = ms /\ pipeline' = pl
          /\ suf' = sfx /\ vf' = vfc /\ out_name' = oname
          /\ \E env \in {"makedirs_oserror", "nonzero", "exception",
                         "read_oserror", "ok"},
                text \in StderrTexts :
               LET res == run_ffmpeg_export(
                              IF env = "nonzero" THEN "nonzero"
                              ELSE IF env = "exception" THEN "exception"
                              ELSE "exit0", text)
               IN IF env = "makedirs_oserror"
                  THEN /\ Raise(tmp_root, OSErrorText)
                       /\ UNCHANGED <<calls, zf, done, progress, status,
                                      arcname, stage, fi, mi, vi>>
                  ELSE IF raises_on(res[1])
                  THEN /\ calls' = Append(calls, call(FALSE))
                       /\ Raise(tmp_root, ffmpeg_error(name, oname, res[2]))
                       /\ UNCHANGED <<zf, done, progress, status, arcname,
                                      stage, fi, mi, vi>>
                  ELSE IF env = "read_oserror" \/ ~res[1]
                  THEN \* open(out_path) or zf.writestr fails
                       /\ calls' = Append(calls, call(res[1]))
                       /\ arcname' = arc
                       /\ Raise(tmp_root, OSErrorText)
                       /\ UNCHANGED <<zf, done, progress, status,
                                      stage, fi, mi, vi>>
                  ELSE /\ calls' = Append(calls, call(TRUE))
                       /\ arcname' = arc
                       /\ tmp_fs' = (out_path :> <<tmp_fs[in_path][1], vfc>>) @@ tmp_fs
                       /\ zf' = Append(zf, [arcname |-> arc,
                                           data |-> <<tmp_fs[in_path][1], vfc>>])
                       /\ done' = done + 1
                       /\ progress' = progress_of(done', total_ops)
                       /\ status' = "Export: " \o arc
                       /\ LET np == next_pos(fi, mi, vi)
                          IN stage' = np[1] /\ fi' = np[2] /\ mi' = np[3]
                             /\ vi' = np[4]
                       /\ UNCHANGED <<pc, tmp_exists, error>>
    /\ UNCHANGED <<session_vars, option_vars, sidebar_vars, tmp_root,
                   total_ops, in_path, angle, download>>

\* Lines 346-364: the ZipFile is closed, the download button is shown, and
\* the finally clause removes the directory.
ExportFinish ==
    /\ pc = "running" /\ stage = "finish"
    /\ \E cl \in {"ok", "oserror"} :
        IF cl = "ok"
        THEN /\ progress' = <<1, 1>>
             /\ status' = "Export terminé ! Téléchargez ci-dessous."
             /\ download' = TRUE
             /\ tmp_exists' = cleanup_exists(tmp_root, tmp_exists)
             /\ tmp_fs' = IF tmp_exists' THEN tmp_fs ELSE EmptyFs
             /\ pc' = "done"
             /\ UNCHANGED error
        ELSE /\ Raise(tmp_root, OSErrorText)
             /\ UNCHANGED <<progress, status, download>>
    /\ UNCHANGED <<session_vars, option_vars, sidebar_vars, tmp_root, zf,
                   total_ops, done, stage, fi, mi, vi, in_path, angle, mstate,
                   pipeline, suf, vf, out_name, arcname, calls>>

\* What every later script run does to the export column: the button is not
\* pressed, so nothing of the last run is shown any more.
ResetRun ==
    /\ pc' = "idle" /\ stage' = "none"
    /\ tmp_root' = "unbound" /\ tmp_fs' = tmp_fs /\ tmp_exists' = tmp_exists
    /\ zf' = <<>> /\ total_ops' = 0 /\ done' = 0
    /\ fi' = 0 /\ mi' = 0 /\ vi' = 0
    /\ in_path' = ""
    /\ angle' = 0 /\ mstate' = FALSE /\ pipeline' = <<>>
    /\ suf' = "" /\ vf' = "" /\ out_name' = "" /\ arcname' = ""
    /\ calls' = <<>> /\ error' = "" /\ download' = FALSE
    /\ progress' = <<0, 1>> /\ status' = ""

\* Lines 241-252 of a script run.
Sidebar ==
    /\ variants' = generate_variants(eff_normal', eff_bw', eff_bwc', eff_gh')
    /\ total_exports' = Len(files') * (IF mirror_all' THEN 2 ELSE 1)
                          * Max(1, Len(variants'))

\* A script run after the export that changes no widget (the download
\* button was pressed).
Rerun ==
    /\ pc = "done"
    /\ UNCHANGED <<session_vars, option_vars>>
    /\ ResetRun
    /\ Sidebar

---------------------------------------------------------------------------
\* The sidebar (lines 187-252): every widget interaction is one script run.
\* None is possible while the export block runs.

\* The click without the wrap.
rotate_click_nowrap(cur, delta) == cur + delta

\* (cur + delta) % 360 of the three rotation buttons (Python's %).
rotate_click(cur, delta) == (cur + delta) % 360

\* The uploader delivers another list of files (lines 196-206).
Upload(new) ==
    /\ pc \in {"idle", "done"}
    /\ new # last_uploaded_names
    /\ files' = new
    /\ last_uploaded_names' = new
    /\ rotation_map' = [n \in NameSet(new) |-> 0]
    /\ selected_name' = IF new # <<>> THEN new[1] ELSE selected_name
    \* the keyed toggle is not drawn without files; its state may be dropped
    /\ mirror_preview' \in (IF new = <<>> THEN {mirror_preview, FALSE}
                            ELSE {mirror_preview})
    /\ UNCHANGED option_vars
    /\ ResetRun /\ Sidebar

\* Another file is picked in the select box (lines 205-206).
SelectFile(n) ==
    /\ pc \in {"idle", "done"}
    /\ n \in NameSet(files) /\ n # selected_name
    /\ selected_name' = n
    /\ UNCHANGED <<files, last_uploaded_names, rotation_map, mirror_preview,
                   option_vars>>
    /\ ResetRun /\ Sidebar

\* One of the rotation buttons (lines 209-220).
RotateBy(delta) ==
    /\ pc \in {"idle", "done"}
    /\ files # <<>>
    /\ LET cur == IF selected_name \in DOMAIN rotation_map
                  THEN rotation_map[selected_name] ELSE 0
       IN rotation_map' = (selected_name :> rotate_click(cur, delta)) @@ rotation_map
    /\ UNCHANGED <<files, last_uploaded_names, selected_name, mirror_preview,
                   option_vars>>
    /\ ResetRun /\ Sidebar

RotateMinus90 == RotateBy(-90)
RotatePlus90 == RotateBy(90)
Rotate180 == RotateBy(180)

\* The "Miroir (aperçu)" toggle (line 222).
ToggleMirrorPreview ==
    /\ pc \in {"idle", "done"}
    /\ files # <<>>
    /\ mirror_preview' = ~mirror_preview
    /\ UNCHANGED <<files, last_uploaded_names, rotation_map, selected_name,
                   option_vars>>
    /\ ResetRun /\ Sidebar

\* The export settings and effect check boxes (lines 226-240).
SetOptions(m_all, flat, resize, pct, en, ebw, ebwc, egh) ==
    /\ pc \in {"idle", "done"}
    \* one widget changes per script run
    /\ LET new == <<m_all, flat, resize, pct, en, ebw, ebwc, egh>>
       IN Cardinality({i \in 1..8 : new[i] # option_vars[i]}) = 1
    \* the slider is disabled without "Redimensionner (%)"
    /\ ~resize_export => pct = export_scale_pct
    /\ mirror_all' = m_all /\ flat_export' = flat
    /\ resize_export' = resize /\ export_scale_pct' = pct
    /\ eff_normal' = en /\ eff_bw' = ebw /\ eff_bwc' = ebwc /\ eff_gh' = egh
    /\ UNCHANGED session_vars
    /\ ResetRun /\ Sidebar

---------------------------------------------------------------------------
\* Specifications.

ExportNext ==
    \/ ExportBegin
    \/ SaveInput
    \/ Transcode
    \/ ExportFinish
    \/ Rerun

SessionNext ==
    \/ \E new \in FileLists(MaxFiles) : Upload(new)
    \/ \E n \in FileNames : SelectFile(n)
    \/ RotateMinus90
    \/ RotatePlus90
    \/ Rotate180
    \/ ToggleMirrorPreview
    \/ ExportNext

Next ==
    \/ SessionNext
    \/ \E m_all, flat, resize, en, ebw, ebwc, egh \in BOOLEAN, pct \in ScaleChoices :
         SetOptions(m_all, flat, resize, pct, en, ebw, ebwc, egh)

\* The whole application from its first script run.
Spec == InitSession /\ [][Next]_vars

\* Uploading, selecting, rotating and exporting with the default options.
SpecSession == InitSession /\ [][SessionNext]_vars

\* Export runs over up to MaxFiles files.
SpecExport == InitExport /\ [][ExportNext]_vars

\* Export runs over one file, every option combination.
SpecSingle == InitSingle /\ [][ExportNext]_vars

---------------------------------------------------------------------------
\* Properties.

\* The mirror states an export run covers.
RunMirrorStates == IF mirror_all THEN {FALSE, TRUE} ELSE {mirror_preview}

\* The run ended by reporting an error / by offering the download.
RunFailed == pc = "done" /\ ~download
RunSucceeded == pc = "done" /\ download

\* C1: when an ffmpeg invocation of an export run reports failure, it is the
\* last invocation of the run, the run has ended without a download, and the
\* reported error holds the name of the file and the output file name of the
\* failing variant.
C1_FailFast ==
    \A k \in DOMAIN calls :
        ~calls[k].ok =>
            /\ k = Len(calls)
            /\ pc = "done"
            /\ ~download
            /\ Len(zf) = k - 1
            /\ Contains(error, files[fi])
            /\ Contains(error, basename(calls[k].output_path))
            /\ basename(calls[k].output_path) = out_name

\* The second variant of the second file failed after three good ones.
C1_Witness ==
    /\ RunFailed
    /\ Len(calls) >= 3 /\ ~calls[Len(calls)].ok
    /\ fi = 2 /\ mi + vi = 3
    /\ Len(calls) < total_ops

\* C2: when an export run has ended, however it ended, the directory made by
\* mkdtemp and everything below it is gone.
C2_TempDirRemoved ==
    pc = "done" => ~tmp_exists /\ tmp_fs = EmptyFs

\* A run that had the directory, wrote an entry and then ended in an error.
C2_Witness ==
    /\ RunFailed /\ tmp_root = TmpDir /\ ~tmp_exists
    /\ done >= 1 /\ error = export_error(OSErrorText)

\* C3: when the download is offered, the archive holds exactly one entry for
\* every (file, mirror state of the run, variant) and nothing else, and no
\* error is shown; a run that ends otherwise offers nothing and shows an error.
C3_AllOrNothing ==
    /\ download =>
        /\ \A i \in DOMAIN files : \A m \in RunMirrorStates : \A v \in DOMAIN variants :
             Cardinality({k \in DOMAIN zf :
                zf[k].data = <<i, ffmpeg_build_filtergraph(
                                     variants[v], m,
                                     export_angle(rotation_map, files[i]),
                                     scale_arg(resize_export, export_scale_pct))>>}) = 1
        /\ Len(zf) = Len(files) * Cardinality(RunMirrorStates) * Len(variants)
        /\ error = ""
    /\ RunFailed => error # ""

\* Two files, both mirror states, two effects: eight entries offered.
C3_Witness ==
    /\ RunSucceeded /\ Len(files) = 2 /\ mirror_all /\ Len(variants) = 2
    /\ Len(zf) = 8

\* C4: every angle stored in the rotation map is 0, 90, 180 or 270.
C4_RotationClosed ==
    \A n \in DOMAIN rotation_map : rotation_map[n] \in {0, 90, 180, 270}

\* The file shown second was rotated to 270 while the first one stands at 180.
C4_Witness ==
    /\ Len(files) = 2 /\ files[1] # files[2]
    /\ rotation_map[files[1]] = 180 /\ rotation_map[files[2]] = 270

\* C5: the variant list is never empty, and with every effect box cleared it
\* is the single variant "normal".
C5_VariantsNonEmpty ==
    /\ Len(variants) >= 1
    /\ (~eff_normal /\ ~eff_bw /\ ~eff_bwc /\ ~eff_gh)
          => variants = << <<"normal">> >>

\* An export with every box cleared wrote its one "normal" variant.
C5_Witness ==
    /\ ~eff_normal /\ ~eff_bw /\ ~eff_bwc /\ ~eff_gh
    /\ RunSucceeded /\ ~mirror_all /\ Len(zf) = 1
    /\ pipeline = <<"normal">>

\* The number of exports of one file under a setting of the mirror-x2 box.
ExportsPerFile(m_all) == Len(mirror_states(m_all, mirror_preview)) * Len(variants)

\* C6: for the effect selection and preview toggle of the session, one file
\* exports twice as many variants with mirror-x2 set as without; a finished
\* run of one file wrote that many, and the sidebar counted as many.
C6_MirrorDoubles ==
    /\ ExportsPerFile(TRUE) = 2 * ExportsPerFile(FALSE)
    /\ (download /\ Len(files) = 1) => Len(zf) = ExportsPerFile(mirror_all)
    /\ Len(files) = 1 => total_exports = ExportsPerFile(mirror_all)

\* Mirror-x2 with the preview toggle on and three effects: six entries.
C6_Witness ==
    /\ RunSucceeded /\ Len(files) = 1 /\ mirror_all /\ mirror_preview
    /\ Len(variants) = 3 /\ Len(zf) = 6

\* Reading a suffix back.
RECURSIVE split(_, _)
split(s, sep) ==
    LET k == find(s, sep, 1)
    IN IF k = 0 THEN <<s>>
       ELSE <<SubSeq(s, 1, k - 1)>> \o split(SubSeq(s, k + Len(sep), Len(s)), sep)

Digits == "0123456789"

IsNumber(s) ==
    s # "" /\ \A k \in 1..Len(s) : find(Digits, SubSeq(s, k, k), 1) # 0

RECURSIVE atoi(_)
atoi(s) ==
    IF s = "" THEN 0
    ELSE 10 * atoi(SubSeq(s, 1, Len(s) - 1))
           + (find(Digits, SubSeq(s, Len(s), Len(s)), 1) - 1)

\* "_rot<angle>" first, "_mir" next, a closing "_<n>pct", the effects between.
DecodeSuffix(sfx) ==
    LET t0 == Tail(split(sfx, "_"))
        hasRot == t0 # <<>> /\ StartsWith(t0[1], "rot")
                    /\ IsNumber(SubSeq(t0[1], 4, Len(t0[1])))
        t1 == IF hasRot THEN Tail(t0) ELSE t0
        hasMir == t1 # <<>> /\ t1[1] = "mir"
        t2 == IF hasMir THEN Tail(t1) ELSE t1
        hasPct == t2 # <<>> /\ EndsWith(t2[Len(t2)], "pct")
                    /\ IsNumber(SubSeq(t2[Len(t2)], 1, Len(t2[Len(t2)]) - 3))
        t3 == IF hasPct THEN SubSeq(t2, 1, Len(t2) - 1) ELSE t2
    IN [angle |-> IF hasRot THEN atoi(SubSeq(t0[1], 4, Len(t0[1]))) ELSE 0,
        mirror |-> hasMir,
        effects |-> t3]

\* The suffix of the output file name of file f: what stands between the
\* base and the extension.
SuffixOfName(oname, f) ==
    SubSeq(oname, Len(base_of(f)) + 1, Len(oname) - Len(choose_output_format(f)))

\* C7: the suffix of the output file name of the variant exported last gives
\* back its rotation angle, its mirror state and its effect list.
C7_SuffixRoundTrip ==
    out_name # "" =>
        DecodeSuffix(SuffixOfName(out_name, files[1]))
            = [angle |-> angle, mirror |-> mstate, effects |-> pipeline]

\* The counter in a state: 0 before the first invocation, the number of
\* entries written, at most the total, the total when the download is offered.
C8_CounterState ==
    /\ pc = "running" =>
         /\ done = Len(zf)
         /\ done <= total_ops
         /\ total_ops = Len(files) * Cardinality(RunMirrorStates) * Len(variants)
         /\ Len(calls) = 0 => done = 0
    /\ pc = "done" /\ tmp_root # "unbound" => done = Len(zf) /\ done <= total_ops
    /\ download => done = total_ops

\* The counter in a step of a run: the total stays, and the counter stays
\* too or moves by one with a good invocation and its entry.
C8_CounterStep ==
    /\ (pc = "idle" /\ pc' = "running") => done' = 0
    /\ pc = "running" =>
         /\ total_ops' = total_ops
         /\ \/ done' = done /\ zf' = zf
            \/ /\ done' = done + 1
               /\ Len(zf') = Len(zf) + 1
               /\ Len(calls') = Len(calls) + 1
               /\ calls'[Len(calls')].ok

\* C8: the progress counter is 0 when the run starts, counts the entries
\* written so far, never passes the total fixed at the start of the run
\* (files x mirror states x variants), reaches it when the download is
\* offered, and moves only by one, together with a good ffmpeg invocation
\* and its archive entry.
C8_ProgressCounter == [] C8_CounterState /\ [][C8_CounterStep]_vars

\* A run of eight variants came to its end with the counter at eight.
C8_Witness ==
    /\ RunSucceeded /\ total_ops = 8 /\ done = 8 /\ progress = <<1, 1>>

\* C9: with the scale slider at 100, resizing enabled or not, the filter
\* chain of an exported variant holds no scale filter and its file name
\* suffix no scale marker.
C9_NoScaleAt100 ==
    (export_scale_pct = 100 /\ vf # "") =>
        /\ ~Contains(vf, "scale")
        /\ ~Contains(suf, "pct")
        /\ ~Contains(SuffixOfName(out_name, files[1]), "pct")

\* Resizing enabled at 100: a mirrored, rotated golden-hour variant was written.
C9_Witness ==
    /\ export_scale_pct = 100 /\ resize_export
    /\ done >= 1 /\ mstate /\ angle = 270 /\ pipeline = <<"goldenhour">>
    /\ vf = "transpose=2,hflip,colorbalance=rs=.10:gs=.05:bs=-.05,hue=s=1.12,eq=contrast=1.06:brightness=0.03"

\* C10: when the download is offered for files of pairwise distinct names, no
\* two entries of the archive have the same path.
C10_DistinctArchivePaths ==
    (download /\ \A i, j \in DOMAIN files : i # j => files[i] # files[j]) =>
        \A j, k \in DOMAIN zf : j # k => zf[j].arcname # zf[k].arcname

====
